---- MODULE Spec2Model ----
(***************************************************************************)
(* Model of communicator/ssh/communicator.go: the SSH communicator.       *)
(*                                                                         *)
(* The Communicator (comm) owns a transport connection and an SSH client  *)
(* built on it.  newSession opens a channel on the client and reconnects  *)
(* once when that fails.  Start runs a remote command and reports its     *)
(* exit status from a goroutine; Upload/UploadDir drive the scp sink      *)
(* protocol over a session's stdin/stdout.                                 *)
(*                                                                         *)
(* Pointers are modelled as numbers: 0 is nil, k > 0 is the k-th object   *)
(* created.  Bytes are numbers 0..255 and byte strings are sequences.     *)
(***************************************************************************)
EXTENDS Integers, Sequences, FiniteSets, TLC

VARIABLES
  conn,        \* comm.conn: 0 (nil) or the id of the stored connection
  client,      \* comm.client: 0 (nil) or the id of the connection it runs on
  produced,    \* number of connections the Config.Connection factory returned
  closedConns, \* ids of the connections on which Close was called
  sessions,    \* the sessions opened so far, a sequence of session records
  constructed, \* "no", "yes" (New returned a comm) or "failed" (New returned nil)
  pc,          \* per caller: the position in the operation it runs
  op,          \* per caller: the public or internal operation it called
  err,         \* per caller: the err variable of the running call
  sess,        \* per caller: the session variable of the running call
  log,         \* per caller: the calls the running operation made to its
               \* collaborators (factory, handshake, channel open, pty, ...)
               \* and what each returned
  cmd,         \* per caller: the RemoteCmd passed to the running Start
  cmds,        \* the RemoteCmds passed to Start so far, a sequence of records
  input,       \* the arguments of the running Upload or UploadDir
  files,       \* the files the running transfer has still to send; the
               \* first one is the file scpUploadFile is working on
  inputBuf,    \* scpUploadFile: the in-memory copy of the file's content
  stdinW,      \* scpSession: 0 (nil) or 1 (the session's stdin pipe)
  pipeCloses,  \* number of Close calls made on the stdin pipe
  wire,        \* the bytes written to the stdin pipe that reached the sink
  stdoutR,     \* the bytes of the sink's stdout not yet read
  acks,        \* number of acknowledgements checkSCPStatus consumed
  msgs,        \* number of protocol messages written (header, payload+NUL)
  sinkLog,     \* the answers the sink gave, a sequence of [code, msg]
  waited,      \* scpSession: session.Wait() has been called
  transfers    \* number of Upload and UploadDir calls made so far

startVars == <<cmd, cmds>>
scpVars == <<input, files, inputBuf, stdinW, pipeCloses, wire, stdoutR, acks,
             msgs, sinkLog, waited, transfers>>

vars == <<conn, client, produced, closedConns, sessions, constructed,
          pc, op, err, sess, log, startVars, scpVars>>

(***************************************************************************)
(* Bounds of the model.                                                    *)
(***************************************************************************)
MaxConns == 3
MaxSessions == 3
MaxCmds == 2
MaxLen == 2
LongLen == 11
MaxTransfers == 1
MaxEntries == 2
MaxStream == 3
MaxDepth == 2

\* The callers of the single-caller specifications.
Callers == {1}
\* The goroutines of the specification of concurrent calls.
Procs == {1, 2}

(***************************************************************************)
(* Error values.  An error is a record; nil is the record of kind "nil".  *)
(***************************************************************************)
Err(kind) == [kind |-> kind, text |-> <<>>, code |-> 0]
NilErr == Err("nil")
\* errors.New("client not available")
ErrClientNotAvailable == Err("client not available")
\* what Config.Connection may fail with
DialErrors == {Err("dial refused"), Err("dial timeout")}
\* what ssh.Client (the handshake) may fail with
HandshakeErrors == {Err("handshake failed")}
\* what ClientConn.NewSession may fail with
OpenErrors == {Err("open rejected"), Err("open: connection lost")}

\* An entry of a caller's log: the collaborator call made, the error it
\* returned and the session it returned (0 for none).
Ev(ev, e, s) == [ev |-> ev, err |-> e, session |-> s]

\* A session record: the connection it is multiplexed on and whether
\* Close was called on it.
\* What Session.Wait returns: nil ("ok"), an *ssh.ExitError carrying the
\* remote exit status ("exit"), or another error ("other": the transport
\* failed, a stream could not be copied).  "none": it has not returned.
ExitCodes == {1, 3, 127}
NoWait == [kind |-> "none", code |-> 0]
WaitOutcomes ==
  {[kind |-> "ok", code |-> 0], [kind |-> "other", code |-> 0]}
    \cup {[kind |-> "exit", code |-> c] : c \in ExitCodes}
\* what Session.RequestPty and Session.Start may fail with
PtyErrors == {Err("pty request failed")}
RunErrors == {Err("exec request failed")}

\* A session record: the connection it is multiplexed on, whether Close was
\* called on it, the state of its remote process ("none", "running",
\* "ended") and what Wait returns for it.
NewSessionRecord(c) ==
  [conn |-> c, closed |-> FALSE, proc |-> "none", wait |-> NoWait]

\* The session of a transfer that has returned: it is closed, and its remote
\* process is no longer observed by anything.
ClosedSessionRecord(c) ==
  [conn |-> c, closed |-> TRUE, proc |-> "ended", wait |-> NoWait]

\* A packer.RemoteCmd as Start sees it: the session its goroutine waits on,
\* the goroutine ("none", "waiting", "done"), the Exited and ExitStatus
\* fields, the number of SetExited calls, and what its Start returned
\* ("pending", "ok", "err").
NewRemoteCmd ==
  [session |-> 0, bg |-> "none", exited |-> FALSE, exitStatus |-> 0,
   sets |-> 0, ret |-> "pending"]

(***************************************************************************)
(* Where control goes when reconnect or newSession returns, by caller.    *)
(***************************************************************************)
\* Mutant of AfterReconnect: newSession starts over after a reconnect.
AfterReconnect_StartOver(o) ==
  IF o = "New" THEN "new_ret"
  ELSE IF o = "reconnect" THEN "done"
  ELSE "ns_open"

AfterReconnect(o) ==
  IF o = "New" THEN "new_ret"
  ELSE IF o = "reconnect" THEN "done"
  ELSE "ns_retry"

AfterNewSession(o, e) ==
  IF o = "newSession" \/ e # NilErr THEN "done"
  ELSE IF o = "Start" THEN "start_pty"
  ELSE "scp_stdin"

(***************************************************************************)
(* Byte strings of the scp protocol and the inputs of the transfers.      *)
(***************************************************************************)
\* All sequences over S of length at most n.
BoundedSeq(S, n) == UNION {[1..k -> S] : k \in 0..n}

\* The bytes a file may hold: NUL, newline and 'A'.
ContentBytes == {0, 10, 65}
\* A file long enough for a length of two decimal digits.
LongContent == [i \in 1..LongLen |-> 65]
Contents == BoundedSeq(ContentBytes, MaxLen) \cup {LongContent}

\* The destination paths: "f", "/tmp/g", "d/".
Paths == {<<102>>, <<47, 116, 109, 112, 47, 103>>, <<100, 47>>}

\* filepath.Base: the last element of the path, trailing slashes removed;
\* "." for the empty path and "/" for a path of slashes only.
RECURSIVE TrimSlashes(_)
TrimSlashes(s) ==
  IF s # <<>> /\ s[Len(s)] = 47
    THEN TrimSlashes(SubSeq(s, 1, Len(s) - 1))
    ELSE s

RECURSIVE LastElem(_)
LastElem(s) ==
  IF s = <<>> \/ s[Len(s)] = 47
    THEN <<>>
    ELSE Append(LastElem(SubSeq(s, 1, Len(s) - 1)), s[Len(s)])

Base(path) ==
  IF path = <<>> THEN <<46>>
  ELSE IF TrimSlashes(path) = <<>> THEN <<47>>
  ELSE LastElem(TrimSlashes(path))

\* The decimal digits of n, as fmt prints an int.
RECURSIVE Decimal(_)
Decimal(n) ==
  IF n < 10 THEN <<48 + n>> ELSE Append(Decimal(n \div 10), 48 + (n % 10))

\* "C0644"
C0644 == <<67, 48, 54, 52, 52>>

\* Mutant of Header: the declared length counts the terminator byte too.
Header_CountsNul(n, name) ==
  C0644 \o <<32>> \o Decimal(n + 1) \o <<32>> \o name \o <<10>>

\* fmt.Fprintln(w, "C0644", inputBuf.Len(), dst): the operands separated by
\* spaces, then a newline.
Header(n, name) == C0644 \o <<32>> \o Decimal(n) \o <<32>> \o name \o <<10>>

\* The message lines a sink sends with a non-zero status: "disk full", "x".
Messages == {<<100, 105, 115, 107, 32, 102, 117, 108, 108>>, <<120>>}
\* The line ends a sink may use: "\n" and "\r\n".
LineEnds == {<<10>>, <<13, 10>>}
\* The answers of a sink to a protocol message: status 0, or status 1 or 2
\* followed by a message line.
SinkAnswers ==
  {[code |-> 0, msg |-> <<>>, eol |-> <<>>]}
    \cup {[code |-> c, msg |-> m, eol |-> e] :
            c \in {1, 2}, m \in Messages, e \in LineEnds}
AnswerBytes(a) ==
  IF a.code = 0 THEN <<0>> ELSE <<a.code>> \o a.msg \o a.eol

\* The entries of a source directory, as os.FileInfo and the file behind
\* it: the files "a" (one byte) and "b" (empty), the directory "sub", and
\* the file "c" that cannot be opened, and the file "d" whose read fails.
Entry(name, isDir, content, openFail) ==
  [name |-> name, isDir |-> isDir, content |-> content, openFail |-> openFail,
   readFail |-> FALSE]
EntryKinds ==
  {Entry(<<97>>, FALSE, <<65>>, FALSE), Entry(<<98>>, FALSE, <<>>, FALSE),
   Entry(<<115, 117, 98>>, TRUE, <<>>, FALSE), Entry(<<99>>, FALSE, <<>>, TRUE),
   [Entry(<<100>>, FALSE, <<65>>, FALSE) EXCEPT !.readFail = TRUE]}
\* What Readdir(-1) may return for the source directory.
Listings == BoundedSeq(EntryKinds, MaxEntries)
\* The excludes lists: none, and one naming "a".
Excludes == {<<>>, <<(<<97>>)>>}
\* what os.Open and Readdir may fail with
ErrOpen == Err("open: no such file")
ErrReaddir == Err("readdir failed")

\* what the pipe getters, session.Start and the streams may fail with
PipeErrors == {Err("pipe already set")}
ErrEOF == Err("EOF")
ErrReadMessage == Err("Error reading error message: EOF")
ErrRead == Err("read error")
ErrWrite == Err("write error")
\* errors.New("SCP failed to start. This usually means that SCP is not
\* properly installed on the remote system.")
ErrScpNotInstalled == Err("SCP failed to start")
\* errors.New(string(message))
ErrMessage(m) == [kind |-> "message", text |-> m, code |-> 0]
\* an *ssh.ExitError with the exit status c
ErrExit(c) == [kind |-> "exit status", text |-> <<>>, code |-> c]
ErrWait == Err("wait: session lost")

\* No transfer is running.
NoInput ==
  [path |-> <<>>, content |-> <<>>, readFail |-> FALSE, entries |-> <<>>,
   excl |-> <<>>]
ScpInit ==
  /\ input = NoInput
  /\ files = <<>>
  /\ inputBuf = <<>>
  /\ stdinW = 0
  /\ pipeCloses = 0
  /\ wire = <<>>
  /\ stdoutR = <<>>
  /\ acks = 0
  /\ msgs = 0
  /\ sinkLog = <<>>
  /\ waited = FALSE
  /\ transfers = 0

Init ==
  /\ conn = 0
  /\ client = 0
  /\ produced = 0
  /\ closedConns = {}
  /\ sessions = <<>>
  /\ constructed = "no"
  /\ pc = [p \in Callers |-> "idle"]
  /\ op = [p \in Callers |-> "none"]
  /\ err = [p \in Callers |-> NilErr]
  /\ sess = [p \in Callers |-> 0]
  /\ log = [p \in Callers |-> <<>>]
  /\ cmd = [p \in Callers |-> 0]
  /\ cmds = <<>>
  /\ ScpInit

(***************************************************************************)
(* New: builds the comm and reconnects.                                    *)
(***************************************************************************)
New(p) ==
  /\ constructed = "no"
  /\ pc[p] = "idle"
  /\ op' = [op EXCEPT ![p] = "New"]
  /\ pc' = [pc EXCEPT ![p] = "rc_close"]
  /\ err' = [err EXCEPT ![p] = NilErr]
  /\ UNCHANGED <<conn, client, produced, closedConns, sessions, constructed,
                 sess, log>>
  /\ UNCHANGED <<startVars, scpVars>>

\* New, after reconnect returned: result = nil when it failed.
NewReturn(p) ==
  /\ pc[p] = "new_ret"
  /\ constructed' = IF err[p] # NilErr THEN "failed" ELSE "yes"
  /\ pc' = [pc EXCEPT ![p] = "done"]
  /\ UNCHANGED <<conn, client, produced, closedConns, sessions, op, err,
                 sess, log>>
  /\ UNCHANGED <<startVars, scpVars>>

(***************************************************************************)
(* reconnect, in the three steps at which it touches the comm.            *)
(***************************************************************************)
\* A direct call of reconnect by the owner of the comm.
reconnectCall(p) ==
  /\ constructed = "yes"
  /\ pc[p] = "idle"
  /\ op' = [op EXCEPT ![p] = "reconnect"]
  /\ pc' = [pc EXCEPT ![p] = "rc_close"]
  /\ err' = [err EXCEPT ![p] = NilErr]
  /\ UNCHANGED <<conn, client, produced, closedConns, sessions, constructed,
                 sess, log>>
  /\ UNCHANGED <<startVars, scpVars>>

\* Closing connection c ends what runs over it: Wait on a session of c
\* whose remote process has not reported its exit returns an error that is
\* not an *ssh.ExitError.
LoseSessions(c) ==
  [s \in DOMAIN sessions |->
     IF sessions[s].conn = c /\ sessions[s].proc = "running"
          /\ ~sessions[s].closed
       THEN [sessions[s] EXCEPT !.proc = "ended",
                                !.wait = [kind |-> "other", code |-> 0]]
       ELSE sessions[s]]

\* Mutant of reconnectClose: the stored connection is dropped, not closed.
reconnectClose_Drops(p) ==
  /\ pc[p] = "rc_close"
  /\ conn' = 0
  /\ client' = 0
  /\ pc' = [pc EXCEPT ![p] = "rc_dial"]
  /\ UNCHANGED <<produced, closedConns, sessions, constructed, op, err, sess,
                 log>>
  /\ UNCHANGED <<startVars, scpVars>>

\* if c.conn != nil { c.conn.Close() }; c.conn = nil; c.client = nil
reconnectClose(p) ==
  /\ pc[p] = "rc_close"
  /\ closedConns' = IF conn # 0 THEN closedConns \cup {conn} ELSE closedConns
  /\ sessions' = IF conn # 0 THEN LoseSessions(conn) ELSE sessions
  /\ conn' = 0
  /\ client' = 0
  /\ pc' = [pc EXCEPT ![p] = "rc_dial"]
  /\ UNCHANGED <<produced, constructed, op, err, sess, log>>
  /\ UNCHANGED <<startVars, scpVars>>

\* c.conn, err = c.config.Connection(); if err != nil { return }
reconnectDial(p) ==
  /\ pc[p] = "rc_dial"
  /\ \/ /\ produced < MaxConns
        /\ produced' = produced + 1
        /\ conn' = produced + 1
        /\ err' = [err EXCEPT ![p] = NilErr]
        /\ pc' = [pc EXCEPT ![p] = "rc_handshake"]
        /\ UNCHANGED log
     \/ /\ \E e \in DialErrors :
             /\ err' = [err EXCEPT ![p] = e]
             /\ log' = [log EXCEPT ![p] =
                            Append(@, Ev("reconnect", e, 0))]
        /\ conn' = 0
        /\ pc' = [pc EXCEPT ![p] = AfterReconnect(op[p])]
        /\ UNCHANGED produced
  /\ UNCHANGED <<client, closedConns, sessions, constructed, op, sess>>
  /\ UNCHANGED <<startVars, scpVars>>

\* c.client, err = ssh.Client(c.conn, c.config.SSHConfig); return
reconnectHandshake(p) ==
  /\ pc[p] = "rc_handshake"
  /\ conn # 0
  /\ \/ /\ client' = conn
        /\ err' = [err EXCEPT ![p] = NilErr]
        /\ log' = [log EXCEPT ![p] =
                       Append(@, Ev("reconnect", NilErr, 0))]
     \/ /\ \E e \in HandshakeErrors :
             /\ err' = [err EXCEPT ![p] = e]
             /\ log' = [log EXCEPT ![p] =
                            Append(@, Ev("reconnect", e, 0))]
        /\ client' = 0
  /\ pc' = [pc EXCEPT ![p] = AfterReconnect(op[p])]
  /\ UNCHANGED <<conn, produced, closedConns, sessions, constructed, op, sess>>
  /\ UNCHANGED <<startVars, scpVars>>

(***************************************************************************)
(* newSession.                                                             *)
(***************************************************************************)
\* A direct call of newSession by the owner of the comm.
newSessionCall(p) ==
  /\ constructed = "yes"
  /\ pc[p] = "idle"
  /\ op' = [op EXCEPT ![p] = "newSession"]
  /\ pc' = [pc EXCEPT ![p] = "ns_open"]
  /\ err' = [err EXCEPT ![p] = NilErr]
  /\ sess' = [sess EXCEPT ![p] = 0]
  /\ log' = [log EXCEPT ![p] = <<>>]
  /\ UNCHANGED <<conn, client, produced, closedConns, sessions, constructed>>
  /\ UNCHANGED <<startVars, scpVars>>

\* The first attempt: "client not available" when c.client == nil, else
\* c.client.NewSession(); on success newSession returns the session.
newSessionOpen(p) ==
  /\ pc[p] = "ns_open"
  /\ \/ /\ client = 0
        /\ err' = [err EXCEPT ![p] = ErrClientNotAvailable]
        /\ log' = [log EXCEPT ![p] =
                       Append(@, Ev("noclient", ErrClientNotAvailable, 0))]
        /\ pc' = [pc EXCEPT ![p] = "rc_close"]
        /\ UNCHANGED <<sessions, sess>>
     \/ /\ client # 0
        /\ Len(sessions) < MaxSessions
        /\ sessions' = Append(sessions, NewSessionRecord(client))
        /\ sess' = [sess EXCEPT ![p] = Len(sessions) + 1]
        /\ err' = [err EXCEPT ![p] = NilErr]
        /\ log' = [log EXCEPT ![p] =
                       Append(@, Ev("open", NilErr, Len(sessions) + 1))]
        /\ pc' = [pc EXCEPT ![p] = AfterNewSession(op[p], NilErr)]
     \/ /\ client # 0
        /\ \E e \in OpenErrors :
             /\ err' = [err EXCEPT ![p] = e]
             /\ log' = [log EXCEPT ![p] =
                            Append(@, Ev("open", e, 0))]
        /\ pc' = [pc EXCEPT ![p] = "rc_close"]
        /\ UNCHANGED <<sessions, sess>>
  /\ UNCHANGED <<conn, client, produced, closedConns, constructed, op>>
  /\ UNCHANGED <<startVars, scpVars>>

\* Mutant of newSessionRetry: a failed reconnect returns the outer err (the
\* first attempt's error) instead of the reconnect's.
newSessionRetry_OuterErr(p) ==
  /\ pc[p] = "ns_retry"
  /\ \/ /\ err[p] # NilErr
        /\ sess' = [sess EXCEPT ![p] = 0]
        /\ err' = [err EXCEPT ![p] = log[p][1].err]
        /\ pc' = [pc EXCEPT ![p] = AfterNewSession(op[p], err[p])]
        /\ UNCHANGED <<sessions, log>>
     \/ /\ err[p] = NilErr
        /\ Len(sessions) < MaxSessions
        /\ sessions' = Append(sessions, NewSessionRecord(client))
        /\ sess' = [sess EXCEPT ![p] = Len(sessions) + 1]
        /\ log' = [log EXCEPT ![p] = Append(@, Ev("open", NilErr, Len(sessions) + 1))]
        /\ pc' = [pc EXCEPT ![p] = AfterNewSession(op[p], NilErr)]
        /\ UNCHANGED err
     \/ /\ err[p] = NilErr
        /\ \E e \in OpenErrors :
             /\ err' = [err EXCEPT ![p] = e]
             /\ log' = [log EXCEPT ![p] = Append(@, Ev("open", e, 0))]
             /\ pc' = [pc EXCEPT ![p] = AfterNewSession(op[p], e)]
        /\ sess' = [sess EXCEPT ![p] = 0]
        /\ UNCHANGED sessions
  /\ UNCHANGED <<conn, client, produced, closedConns, constructed, op>>
  /\ UNCHANGED <<startVars, scpVars>>

\* if err := c.reconnect(); err != nil { return nil, err }
\* return c.client.NewSession()
newSessionRetry(p) ==
  /\ pc[p] = "ns_retry"
  /\ \/ /\ err[p] # NilErr
        /\ sess' = [sess EXCEPT ![p] = 0]
        /\ pc' = [pc EXCEPT ![p] = AfterNewSession(op[p], err[p])]
        /\ UNCHANGED <<sessions, err, log>>
     \/ /\ err[p] = NilErr
        /\ client # 0
        /\ Len(sessions) < MaxSessions
        /\ sessions' = Append(sessions, NewSessionRecord(client))
        /\ sess' = [sess EXCEPT ![p] = Len(sessions) + 1]
        /\ log' = [log EXCEPT ![p] =
                       Append(@, Ev("open", NilErr, Len(sessions) + 1))]
        /\ pc' = [pc EXCEPT ![p] = AfterNewSession(op[p], NilErr)]
        /\ UNCHANGED err
     \/ /\ err[p] = NilErr
        /\ client # 0
        /\ \E e \in OpenErrors :
             /\ err' = [err EXCEPT ![p] = e]
             /\ log' = [log EXCEPT ![p] =
                            Append(@, Ev("open", e, 0))]
             /\ pc' = [pc EXCEPT ![p] = AfterNewSession(op[p], e)]
        /\ sess' = [sess EXCEPT ![p] = 0]
        /\ UNCHANGED sessions
  /\ UNCHANGED <<conn, client, produced, closedConns, constructed, op>>
  /\ UNCHANGED <<startVars, scpVars>>

\* The caller takes the result of the finished call and is free to call
\* again; the caller of Start now knows what Start returned for its cmd.
Return(p) ==
  /\ pc[p] = "done"
  /\ constructed = "yes"
  /\ pc' = [pc EXCEPT ![p] = "idle"]
  /\ op' = [op EXCEPT ![p] = "none"]
  /\ err' = [err EXCEPT ![p] = NilErr]
  /\ sess' = [sess EXCEPT ![p] = 0]
  /\ log' = [log EXCEPT ![p] = <<>>]
  /\ cmd' = [cmd EXCEPT ![p] = 0]
  /\ cmds' = IF op[p] = "Start"
              THEN [cmds EXCEPT ![cmd[p]].ret =
                      IF err[p] = NilErr THEN "ok" ELSE "err"]
              ELSE cmds
  /\ input' = NoInput
  /\ files' = <<>>
  /\ inputBuf' = <<>>
  /\ stdinW' = 0
  /\ pipeCloses' = 0
  /\ wire' = <<>>
  /\ stdoutR' = <<>>
  /\ acks' = 0
  /\ msgs' = 0
  /\ sinkLog' = <<>>
  /\ waited' = FALSE
  /\ sessions' = IF op[p] \in {"Upload", "UploadDir"} /\ sess[p] # 0
                  THEN [sessions EXCEPT ![sess[p]] = ClosedSessionRecord(@.conn)]
                  ELSE sessions
  /\ UNCHANGED <<conn, client, produced, closedConns, constructed, transfers>>

ConnSteps(p) ==
  \/ New(p)
  \/ NewReturn(p)
  \/ reconnectClose(p)
  \/ reconnectDial(p)
  \/ reconnectHandshake(p)
  \/ newSessionOpen(p)
  \/ newSessionRetry(p)
  \/ Return(p)

Next ==
  \E p \in Callers :
    \/ ConnSteps(p)
    \/ reconnectCall(p)
    \/ newSessionCall(p)

Spec == Init /\ [][Next]_vars

(***************************************************************************)
(* Start: runs a remote command; a goroutine reports its exit status.     *)
(***************************************************************************)
\* Start(cmd) is called with a RemoteCmd of the caller; it begins with
\* newSession.
StartCall(p) ==
  /\ constructed = "yes"
  /\ pc[p] = "idle"
  /\ Len(cmds) < MaxCmds
  /\ cmds' = Append(cmds, NewRemoteCmd)
  /\ cmd' = [cmd EXCEPT ![p] = Len(cmds) + 1]
  /\ op' = [op EXCEPT ![p] = "Start"]
  /\ pc' = [pc EXCEPT ![p] = "ns_open"]
  /\ err' = [err EXCEPT ![p] = NilErr]
  /\ sess' = [sess EXCEPT ![p] = 0]
  /\ log' = [log EXCEPT ![p] = <<>>]
  /\ UNCHANGED <<conn, client, produced, closedConns, sessions, constructed>>
  /\ UNCHANGED scpVars

\* Mutant of StartRequestPty: the pty error is not returned, Start goes on.
StartRequestPty_GoOn(p) ==
  /\ pc[p] = "start_pty"
  /\ \/ /\ log' = [log EXCEPT ![p] = Append(@, Ev("pty", NilErr, sess[p]))]
        /\ UNCHANGED err
     \/ \E e \in PtyErrors :
          /\ err' = [err EXCEPT ![p] = e]
          /\ log' = [log EXCEPT ![p] = Append(@, Ev("pty", e, sess[p]))]
  /\ pc' = [pc EXCEPT ![p] = "start_run"]
  /\ UNCHANGED <<conn, client, produced, closedConns, sessions, constructed,
                 op, sess, startVars, scpVars>>

\* if err = session.RequestPty(...); err != nil { return }
StartRequestPty(p) ==
  /\ pc[p] = "start_pty"
  /\ \/ /\ log' = [log EXCEPT ![p] = Append(@, Ev("pty", NilErr, sess[p]))]
        /\ pc' = [pc EXCEPT ![p] = "start_run"]
        /\ UNCHANGED err
     \/ \E e \in PtyErrors :
          /\ err' = [err EXCEPT ![p] = e]
          /\ log' = [log EXCEPT ![p] = Append(@, Ev("pty", e, sess[p]))]
          /\ pc' = [pc EXCEPT ![p] = "done"]
  /\ UNCHANGED <<conn, client, produced, closedConns, sessions, constructed,
                 op, sess, startVars, scpVars>>

\* err = session.Start(cmd.Command + "\n"); if err != nil { return };
\* go func() {...}(); return
StartRun(p) ==
  /\ pc[p] = "start_run"
  /\ \/ /\ sessions' = [sessions EXCEPT ![sess[p]].proc = "running"]
        /\ cmds' = [cmds EXCEPT ![cmd[p]].session = sess[p],
                                ![cmd[p]].bg = "waiting"]
        /\ log' = [log EXCEPT ![p] = Append(@, Ev("start", NilErr, sess[p]))]
        /\ UNCHANGED err
     \/ \E e \in RunErrors :
          /\ err' = [err EXCEPT ![p] = e]
          /\ log' = [log EXCEPT ![p] = Append(@, Ev("start", e, sess[p]))]
          /\ UNCHANGED <<sessions, cmds>>
  /\ pc' = [pc EXCEPT ![p] = "done"]
  /\ UNCHANGED <<conn, client, produced, closedConns, constructed, op, sess, cmd>>
  /\ UNCHANGED scpVars

\* The remote side: the process of session s ends (it exits, or the session
\* is lost), which is what Wait on the session then reports.
RemoteExit(s) ==
  /\ s \in DOMAIN sessions
  /\ sessions[s].proc = "running"
  /\ ~sessions[s].closed
  /\ \E o \in WaitOutcomes :
       sessions' = [sessions EXCEPT ![s].proc = "ended", ![s].wait = o]
  /\ UNCHANGED <<conn, client, produced, closedConns, constructed,
                 pc, op, err, sess, log, startVars, scpVars>>

\* Mutant of ExitStatusOf: every failed Wait counts as status 1.
ExitStatusOf_Flag(w) == IF w.kind = "ok" THEN 0 ELSE 1

\* The exit status the goroutine derives from what Wait returned.
ExitStatusOf(w) == IF w.kind = "exit" THEN w.code ELSE 0

\* cmd.SetExited(status)
SetExited(c, status) ==
  [c EXCEPT !.exited = TRUE, !.exitStatus = status, !.sets = @ + 1]

\* Mutant of StartGoroutine: the status is reported without waiting for the
\* remote process.
StartGoroutine_NoWait(c) ==
  /\ c \in DOMAIN cmds
  /\ cmds[c].bg = "waiting"
  /\ cmds' = [cmds EXCEPT
                ![c] = [SetExited(@, ExitStatusOf(sessions[cmds[c].session].wait))
                          EXCEPT !.bg = "done"]]
  /\ sessions' = [sessions EXCEPT ![cmds[c].session].closed = TRUE]
  /\ UNCHANGED <<conn, client, produced, closedConns, constructed,
                 pc, op, err, sess, log, cmd, scpVars>>

\* The goroutine of Start, once session.Wait() has returned: it computes
\* the exit status, calls cmd.SetExited and (deferred) session.Close().
StartGoroutine(c) ==
  /\ c \in DOMAIN cmds
  /\ cmds[c].bg = "waiting"
  /\ sessions[cmds[c].session].proc = "ended"
  /\ cmds' = [cmds EXCEPT
                ![c] = [SetExited(@, ExitStatusOf(sessions[cmds[c].session].wait))
                          EXCEPT !.bg = "done"]]
  /\ sessions' = [sessions EXCEPT ![cmds[c].session].closed = TRUE]
  /\ UNCHANGED <<conn, client, produced, closedConns, constructed,
                 pc, op, err, sess, log, cmd, scpVars>>

StartSteps(p) ==
  \/ StartCall(p)
  \/ StartRequestPty(p)
  \/ StartRun(p)

NextStart ==
  \/ \E p \in Callers : ConnSteps(p) \/ StartSteps(p)
  \/ \E s \in 1..MaxSessions : RemoteExit(s)
  \/ \E c \in 1..MaxCmds : StartGoroutine(c)

SpecStart == Init /\ [][NextStart]_vars

\* The Go scheduler runs a goroutine whose Wait has returned.
SpecStartFair ==
  SpecStart /\ \A c \in 1..MaxCmds : WF_vars(StartGoroutine(c))

(***************************************************************************)
(* Concurrent calls on one comm.  The comm's fields are read and written  *)
(* without a lock, so the steps of two goroutines interleave at every     *)
(* read and write of c.conn and c.client.                                  *)
(***************************************************************************)
\* The comm after a New that succeeded, and two goroutines about to call.
InitConc ==
  /\ conn = 1
  /\ client = 1
  /\ produced = 1
  /\ closedConns = {}
  /\ sessions = <<>>
  /\ constructed = "yes"
  /\ pc = [p \in Procs |-> "idle"]
  /\ op = [p \in Procs |-> "none"]
  /\ err = [p \in Procs |-> NilErr]
  /\ sess = [p \in Procs |-> 0]
  /\ log = [p \in Procs |-> <<>>]
  /\ cmd = [p \in Procs |-> 0]
  /\ cmds = <<>>
  /\ ScpInit

\* A method call through a nil pointer: c.client.NewSession() in the retry
\* of newSession when c.client is nil, ssh.Client(c.conn, ...) in reconnect
\* when c.conn is nil.  The goroutine panics, which ends the program.
nilDereference(p) ==
  /\ \/ pc[p] = "ns_retry" /\ err[p] = NilErr /\ client = 0
     \/ pc[p] = "rc_handshake" /\ conn = 0
  /\ log' = [log EXCEPT ![p] = Append(@, Ev("nil dereference", NilErr, 0))]
  /\ pc' = [q \in DOMAIN pc |-> "panic"]
  /\ UNCHANGED <<conn, client, produced, closedConns, sessions, constructed,
                 op, err, sess, startVars, scpVars>>

NextConc ==
  \/ \E p \in Procs :
       \/ reconnectClose(p)
       \/ reconnectDial(p)
       \/ reconnectHandshake(p)
       \/ newSessionOpen(p)
       \/ newSessionRetry(p)
       \/ Return(p)
       \/ StartSteps(p)
       \/ nilDereference(p)
  \/ \E s \in 1..MaxSessions : RemoteExit(s)
  \/ \E c \in 1..MaxCmds : StartGoroutine(c)

SpecConc == InitConc /\ [][NextConc]_vars

(***************************************************************************)
(* checkSCPStatus: reads one status byte and, when it is not 0, one line. *)
(***************************************************************************)
\* The index of the first newline of t, 0 when it holds none.
FirstNewline(t) ==
  IF \E i \in DOMAIN t : t[i] = 10
    THEN CHOOSE i \in DOMAIN t : t[i] = 10 /\ \A j \in 1..(i - 1) : t[j] # 10
    ELSE 0

\* bufio.Reader.ReadLine on a line that ends with "\n": the line without
\* its "\n" or "\r\n".  (Lines are shorter than the reader's buffer.)
ChompLine(l) ==
  IF l # <<>> /\ l[Len(l)] = 13 THEN SubSeq(l, 1, Len(l) - 1) ELSE l

\* Mutant of checkSCPStatus: status 1, a warning, is not treated as fatal.
checkSCPStatus_WarnOk(r, eof) ==
  IF r = <<>>
    THEN [blocked |-> ~eof, err |-> ErrEOF, rest |-> <<>>]
  ELSE IF r[1] = 0
    THEN [blocked |-> FALSE, err |-> NilErr, rest |-> Tail(r)]
  ELSE IF FirstNewline(Tail(r)) > 0
    THEN [blocked |-> FALSE,
          err |-> IF r[1] = 1 THEN NilErr
                  ELSE ErrMessage(ChompLine(SubSeq(Tail(r), 1, FirstNewline(Tail(r)) - 1))),
          rest |-> SubSeq(Tail(r), FirstNewline(Tail(r)) + 1, Len(Tail(r)))]
  ELSE IF Tail(r) = <<>>
    THEN [blocked |-> ~eof, err |-> ErrReadMessage, rest |-> <<>>]
  ELSE [blocked |-> ~eof, err |-> ErrMessage(Tail(r)), rest |-> <<>>]

\* Mutant of checkSCPStatus: the end of the stream at the status byte is
\* taken for success.
checkSCPStatus_EofOk(r, eof) ==
  IF r = <<>>
    THEN [blocked |-> ~eof, err |-> NilErr, rest |-> <<>>]
  ELSE IF r[1] = 0
    THEN [blocked |-> FALSE, err |-> NilErr, rest |-> Tail(r)]
  ELSE IF FirstNewline(Tail(r)) > 0
    THEN [blocked |-> FALSE,
          err |-> ErrMessage(ChompLine(SubSeq(Tail(r), 1, FirstNewline(Tail(r)) - 1))),
          rest |-> SubSeq(Tail(r), FirstNewline(Tail(r)) + 1, Len(Tail(r)))]
  ELSE IF Tail(r) = <<>>
    THEN [blocked |-> ~eof, err |-> ErrReadMessage, rest |-> <<>>]
  ELSE [blocked |-> ~eof, err |-> ErrMessage(Tail(r)), rest |-> <<>>]

\* checkSCPStatus on a reader holding the unread bytes r, eof telling that
\* the stream ends after them.  The result: blocked (the read waits for
\* more bytes), the error returned, the bytes left unread.
checkSCPStatus(r, eof) ==
  IF r = <<>>
    THEN [blocked |-> ~eof, err |-> ErrEOF, rest |-> <<>>]
  ELSE IF r[1] = 0
    THEN [blocked |-> FALSE, err |-> NilErr, rest |-> Tail(r)]
  ELSE IF FirstNewline(Tail(r)) > 0
    THEN [blocked |-> FALSE,
          err |-> ErrMessage(ChompLine(SubSeq(Tail(r), 1, FirstNewline(Tail(r)) - 1))),
          rest |-> SubSeq(Tail(r), FirstNewline(Tail(r)) + 1, Len(Tail(r)))]
  ELSE IF Tail(r) = <<>>
    THEN [blocked |-> ~eof, err |-> ErrReadMessage, rest |-> <<>>]
  ELSE [blocked |-> ~eof, err |-> ErrMessage(Tail(r)), rest |-> <<>>]

(***************************************************************************)
(* checkSCPStatus applied to a whole stream: the reader holds every byte  *)
(* the stream will ever deliver, and the stream ends after them.          *)
(***************************************************************************)
\* The bytes of the streams: status 0 and 1, "\n", "\r" and "x".
StatusBytes == {0, 1, 10, 13, 120}
Streams == BoundedSeq(StatusBytes, MaxStream)

InitStatus ==
  /\ conn = 0
  /\ client = 0
  /\ produced = 0
  /\ closedConns = {}
  /\ sessions = <<>>
  /\ constructed = "no"
  /\ pc = [p \in Callers |-> "cs_call"]
  /\ op = [p \in Callers |-> "checkSCPStatus"]
  /\ err = [p \in Callers |-> NilErr]
  /\ sess = [p \in Callers |-> 0]
  /\ log = [p \in Callers |-> <<>>]
  /\ cmd = [p \in Callers |-> 0]
  /\ cmds = <<>>
  /\ input = NoInput
  /\ files = <<>>
  /\ inputBuf = <<>>
  /\ stdinW = 0
  /\ pipeCloses = 0
  /\ wire = <<>>
  /\ stdoutR \in Streams
  /\ acks = 0
  /\ msgs = 0
  /\ sinkLog = <<>>
  /\ waited = FALSE
  /\ transfers = 0

\* err := checkSCPStatus(r) on the closed stream stdoutR.
checkSCPStatusCall(p) ==
  /\ pc[p] = "cs_call"
  /\ LET res == checkSCPStatus(stdoutR, TRUE) IN
       /\ stdoutR' = res.rest
       /\ err' = [err EXCEPT ![p] = res.err]
  /\ acks' = IF stdoutR # <<>> THEN acks + 1 ELSE acks
  /\ pc' = [pc EXCEPT ![p] = "done"]
  /\ UNCHANGED <<conn, client, produced, closedConns, sessions, constructed,
                 op, sess, log, startVars, input, files, inputBuf, stdinW,
                 pipeCloses, wire, msgs, sinkLog, waited, transfers>>

NextStatus == \E p \in Callers : checkSCPStatusCall(p)

SpecStatus == InitStatus /\ [][NextStatus]_vars

(***************************************************************************)
(* Upload and scpSession.                                                  *)
(***************************************************************************)
\* The session of caller p carries a running remote process: writes to its
\* stdin pipe reach the process, and its stdout has not ended.
SinkRunning(p) == sessions[sess[p]].proc = "running"

\* Upload(path, input): target_file is filepath.Base(path); the transfer
\* begins with newSession.  (target_dir only names the sink's directory.)
UploadCall(p) ==
  /\ constructed = "yes"
  /\ pc[p] = "idle"
  /\ transfers < MaxTransfers
  /\ transfers' = transfers + 1
  /\ \E path \in Paths, content \in Contents, rf \in BOOLEAN :
       /\ input' = [path |-> path, content |-> content, readFail |-> rf,
                     entries |-> <<>>, excl |-> <<>>]
       /\ files' = <<[name |-> Base(path), content |-> content, readFail |-> rf]>>
  /\ op' = [op EXCEPT ![p] = "Upload"]
  /\ pc' = [pc EXCEPT ![p] = "ns_open"]
  /\ err' = [err EXCEPT ![p] = NilErr]
  /\ sess' = [sess EXCEPT ![p] = 0]
  /\ log' = [log EXCEPT ![p] = <<>>]
  /\ UNCHANGED <<conn, client, produced, closedConns, sessions, constructed,
                 startVars, inputBuf, stdinW, pipeCloses, wire, stdoutR, acks,
                 msgs, sinkLog, waited>>

\* scpSession returns e: the deferred calls run, closing the stdin pipe
\* when stdinW is not nil, then the session.
ScpReturn(p, e) ==
  /\ err' = [err EXCEPT ![p] = e]
  /\ pipeCloses' = IF stdinW # 0 THEN pipeCloses + 1 ELSE pipeCloses
  /\ sessions' = [sessions EXCEPT ![sess[p]].closed = TRUE]
  /\ pc' = [pc EXCEPT ![p] = "done"]

\* stdinW, err := session.StdinPipe(); if err != nil { return err }
scpStdinPipe(p) ==
  /\ pc[p] = "scp_stdin"
  /\ \/ /\ stdinW' = 1
        /\ pc' = [pc EXCEPT ![p] = "scp_stdout"]
        /\ UNCHANGED <<err, pipeCloses, sessions>>
     \/ /\ \E e \in PipeErrors : ScpReturn(p, e)
        /\ UNCHANGED stdinW
  /\ UNCHANGED <<conn, client, produced, closedConns, constructed, op, sess,
                 log, startVars, input, files, inputBuf, wire, stdoutR, acks,
                 msgs, sinkLog, waited, transfers>>

\* stdoutPipe, err := session.StdoutPipe(); if err != nil { return err }
scpStdoutPipe(p) ==
  /\ pc[p] = "scp_stdout"
  /\ \/ /\ pc' = [pc EXCEPT ![p] = "scp_start"]
        /\ UNCHANGED <<err, pipeCloses, sessions>>
     \/ \E e \in PipeErrors : ScpReturn(p, e)
  /\ UNCHANGED <<conn, client, produced, closedConns, constructed, op, sess,
                 log, startVars, input, files, inputBuf, stdinW, wire, stdoutR,
                 acks, msgs, sinkLog, waited, transfers>>

\* if err := session.Start(scpCommand); err != nil { return err }; then the
\* callback f is entered.
scpStart(p) ==
  /\ pc[p] = "scp_start"
  /\ \/ /\ sessions' = [sessions EXCEPT ![sess[p]].proc = "running"]
        /\ pc' = [pc EXCEPT ![p] = IF op[p] = "Upload" THEN "uf_read" ELSE "ud_next"]
        /\ UNCHANGED <<err, pipeCloses>>
     \/ \E e \in RunErrors : ScpReturn(p, e)
  /\ UNCHANGED <<conn, client, produced, closedConns, constructed, op, sess,
                 log, startVars, input, files, inputBuf, stdinW, wire, stdoutR,
                 acks, msgs, sinkLog, waited, transfers>>

(***************************************************************************)
(* scpUploadFile on the first of files.  An error it returns is returned  *)
(* by the callback and by scpSession.                                      *)
(***************************************************************************)
\* Mutant of ufRead: the header is written before the content is read.
ufRead_HeaderFirst(p) ==
  /\ pc[p] = "uf_read"
  /\ wire' = wire \o Header(Len(files[1].content), files[1].name)
  /\ IF files[1].readFail
       THEN /\ ScpReturn(p, ErrRead)
            /\ UNCHANGED inputBuf
       ELSE /\ inputBuf' = files[1].content
            /\ pc' = [pc EXCEPT ![p] = "uf_payload"]
            /\ UNCHANGED <<err, pipeCloses, sessions>>
  /\ UNCHANGED <<conn, client, produced, closedConns, constructed, op, sess,
                 log, startVars, input, files, stdinW, stdoutR, acks,
                 msgs, sinkLog, waited, transfers>>

\* io.Copy(inputBuf, src): the content is read to its end, or the read fails.
ufRead(p) ==
  /\ pc[p] = "uf_read"
  /\ IF files[1].readFail
       THEN /\ ScpReturn(p, ErrRead)
            /\ UNCHANGED inputBuf
       ELSE /\ inputBuf' = files[1].content
            /\ pc' = [pc EXCEPT ![p] = "uf_header"]
            /\ UNCHANGED <<err, pipeCloses, sessions>>
  /\ UNCHANGED <<conn, client, produced, closedConns, constructed, op, sess,
                 log, startVars, input, files, stdinW, wire, stdoutR, acks,
                 msgs, sinkLog, waited, transfers>>

\* fmt.Fprintln(w, "C0644", inputBuf.Len(), dst); its error is ignored.
ufHeader(p) ==
  /\ pc[p] = "uf_header"
  /\ wire' = IF SinkRunning(p)
               THEN wire \o Header(Len(inputBuf), files[1].name)
               ELSE wire
  /\ msgs' = msgs + 1
  /\ pc' = [pc EXCEPT ![p] = "uf_ack1"]
  /\ UNCHANGED <<conn, client, produced, closedConns, sessions, constructed,
                 op, err, sess, log, startVars, input, files, inputBuf, stdinW,
                 pipeCloses, stdoutR, acks, sinkLog, waited, transfers>>

\* Mutant of ufAck1: the payload follows the header without waiting for the
\* header's acknowledgement.
ufAck1_NoWait(p) ==
  /\ pc[p] = "uf_ack1"
  /\ pc' = [pc EXCEPT ![p] = "uf_payload"]
  /\ UNCHANGED <<conn, client, produced, closedConns, sessions, constructed,
                 op, err, sess, log, startVars, scpVars>>

\* err := checkSCPStatus(r); if err != nil { return err }  (after the header)
ufAck1(p) ==
  /\ pc[p] = "uf_ack1"
  /\ LET res == checkSCPStatus(stdoutR, ~SinkRunning(p)) IN
       /\ ~res.blocked
       /\ stdoutR' = res.rest
       /\ acks' = IF stdoutR # <<>> THEN acks + 1 ELSE acks
       /\ IF res.err # NilErr
            THEN ScpReturn(p, res.err)
            ELSE /\ pc' = [pc EXCEPT ![p] = "uf_payload"]
                 /\ UNCHANGED <<err, pipeCloses, sessions>>
  /\ UNCHANGED <<conn, client, produced, closedConns, constructed, op, sess,
                 log, startVars, input, files, inputBuf, stdinW, wire, msgs,
                 sinkLog, waited, transfers>>

\* if _, err := io.Copy(w, inputBuf); err != nil { return err }: one Write
\* of the whole buffer, none when the buffer is empty.
ufPayload(p) ==
  /\ pc[p] = "uf_payload"
  /\ IF inputBuf # <<>> /\ ~SinkRunning(p)
       THEN /\ ScpReturn(p, ErrWrite)
            /\ UNCHANGED wire
       ELSE /\ wire' = wire \o inputBuf
            /\ pc' = [pc EXCEPT ![p] = "uf_nul"]
            /\ UNCHANGED <<err, pipeCloses, sessions>>
  /\ UNCHANGED <<conn, client, produced, closedConns, constructed, op, sess,
                 log, startVars, input, files, inputBuf, stdinW, stdoutR, acks,
                 msgs, sinkLog, waited, transfers>>

\* fmt.Fprint(w, "\x00"); its error is ignored.
ufNul(p) ==
  /\ pc[p] = "uf_nul"
  /\ wire' = IF SinkRunning(p) THEN wire \o <<0>> ELSE wire
  /\ msgs' = msgs + 1
  /\ pc' = [pc EXCEPT ![p] = "uf_ack2"]
  /\ UNCHANGED <<conn, client, produced, closedConns, sessions, constructed,
                 op, err, sess, log, startVars, input, files, inputBuf, stdinW,
                 pipeCloses, stdoutR, acks, sinkLog, waited, transfers>>

\* Mutant of ufAck2: an error of the last acknowledgement is kept in err and
\* scpSession goes on to close the pipe and wait for the sink.
ufAck2_GoesOn(p) ==
  /\ pc[p] = "uf_ack2"
  /\ LET res == checkSCPStatus(stdoutR, ~SinkRunning(p)) IN
       /\ ~res.blocked
       /\ stdoutR' = res.rest
       /\ acks' = IF stdoutR # <<>> THEN acks + 1 ELSE acks
       /\ err' = [err EXCEPT ![p] = res.err]
       /\ files' = IF res.err # NilErr THEN files ELSE Tail(files)
       /\ pc' = [pc EXCEPT ![p] =
                   IF op[p] = "Upload" \/ res.err # NilErr
                     THEN "scp_close" ELSE "ud_next"]
  /\ UNCHANGED <<conn, client, produced, closedConns, sessions, constructed,
                 op, sess, log, startVars, input, inputBuf, stdinW, pipeCloses,
                 wire, msgs, sinkLog, waited, transfers>>

\* err = checkSCPStatus(r); if err != nil { return err }; return nil
\* (after the terminator).  The file is done; Upload's callback returns nil.
ufAck2(p) ==
  /\ pc[p] = "uf_ack2"
  /\ LET res == checkSCPStatus(stdoutR, ~SinkRunning(p)) IN
       /\ ~res.blocked
       /\ stdoutR' = res.rest
       /\ acks' = IF stdoutR # <<>> THEN acks + 1 ELSE acks
       /\ IF res.err # NilErr
            THEN /\ ScpReturn(p, res.err)
                 /\ UNCHANGED files
            ELSE /\ files' = Tail(files)
                 /\ pc' = [pc EXCEPT ![p] =
                             IF op[p] = "Upload" THEN "scp_close" ELSE "ud_next"]
                 /\ UNCHANGED <<err, pipeCloses, sessions>>
  /\ UNCHANGED <<conn, client, produced, closedConns, constructed, op, sess,
                 log, startVars, input, inputBuf, stdinW, wire, msgs,
                 sinkLog, waited, transfers>>

\* Mutant of scpCloseStdin: stdinW is not set to nil after the close.
scpCloseStdin_KeepsPipe(p) ==
  /\ pc[p] = "scp_close"
  /\ pipeCloses' = pipeCloses + 1
  /\ pc' = [pc EXCEPT ![p] = "scp_wait"]
  /\ UNCHANGED <<conn, client, produced, closedConns, sessions, constructed,
                 op, err, sess, log, startVars, input, files, inputBuf, stdinW,
                 wire, stdoutR, acks, msgs, sinkLog, waited, transfers>>

\* stdinW.Close(); stdinW = nil
scpCloseStdin(p) ==
  /\ pc[p] = "scp_close"
  /\ pipeCloses' = pipeCloses + 1
  /\ stdinW' = 0
  /\ pc' = [pc EXCEPT ![p] = "scp_wait"]
  /\ UNCHANGED <<conn, client, produced, closedConns, sessions, constructed,
                 op, err, sess, log, startVars, input, files, inputBuf, wire,
                 stdoutR, acks, msgs, sinkLog, waited, transfers>>

\* The error scpSession returns for what session.Wait() returned.
ScpWaitError(w) ==
  IF w.kind = "ok" THEN NilErr
  ELSE IF w.kind = "exit" /\ w.code = 127 THEN ErrScpNotInstalled
  ELSE IF w.kind = "exit" THEN ErrExit(w.code)
  ELSE ErrWait

\* err = session.Wait() and the mapping of its error; Wait returns when the
\* remote process has ended.
scpWait(p) ==
  /\ pc[p] = "scp_wait"
  /\ sessions[sess[p]].proc = "ended"
  /\ waited' = TRUE
  /\ ScpReturn(p, ScpWaitError(sessions[sess[p]].wait))
  /\ UNCHANGED <<conn, client, produced, closedConns, constructed, op, sess,
                 log, startVars, input, files, inputBuf, stdinW, wire, stdoutR,
                 acks, msgs, sinkLog, transfers>>

(***************************************************************************)
(* The remote sink of a transfer.                                          *)
(***************************************************************************)
\* s is the session of a caller that runs a transfer.
TransferSession(s) ==
  \E p \in Callers : op[p] \in {"Upload", "UploadDir"} /\ sess[p] = s

\* The sink answers a message it has received and not yet answered.
SinkRespond(s) ==
  /\ s \in DOMAIN sessions
  /\ TransferSession(s)
  /\ sessions[s].proc = "running"
  /\ ~sessions[s].closed
  /\ Len(sinkLog) < msgs
  /\ \E a \in SinkAnswers :
       /\ stdoutR' = stdoutR \o AnswerBytes(a)
       /\ sinkLog' = Append(sinkLog, a)
  /\ UNCHANGED <<conn, client, produced, closedConns, sessions, constructed,
                 pc, op, err, sess, log, startVars, input, files, inputBuf,
                 stdinW, pipeCloses, wire, acks, msgs, waited, transfers>>

ScpSteps(p) ==
  \/ scpStdinPipe(p)
  \/ scpStdoutPipe(p)
  \/ scpStart(p)
  \/ ufRead(p)
  \/ ufHeader(p)
  \/ ufAck1(p)
  \/ ufPayload(p)
  \/ ufNul(p)
  \/ ufAck2(p)
  \/ scpCloseStdin(p)
  \/ scpWait(p)

NextUpload ==
  \/ \E p \in Callers : ConnSteps(p) \/ UploadCall(p) \/ ScpSteps(p)
  \/ \E s \in 1..MaxSessions : RemoteExit(s) \/ SinkRespond(s)

SpecUpload == Init /\ [][NextUpload]_vars

(***************************************************************************)
(* UploadDir and scpUploadDir.                                             *)
(***************************************************************************)
\* UploadDir(dst, src, excl): the source directory is opened and listed,
\* then the transfer begins with newSession.  excl is not used.
UploadDirCall(p) ==
  /\ constructed = "yes"
  /\ pc[p] = "idle"
  /\ transfers < MaxTransfers
  /\ transfers' = transfers + 1
  /\ op' = [op EXCEPT ![p] = "UploadDir"]
  /\ sess' = [sess EXCEPT ![p] = 0]
  /\ log' = [log EXCEPT ![p] = <<>>]
  /\ \E excl \in Excludes :
       \/ \E e \in {ErrOpen, ErrReaddir} :
            /\ input' = [NoInput EXCEPT !.excl = excl]
            /\ files' = <<>>
            /\ err' = [err EXCEPT ![p] = e]
            /\ pc' = [pc EXCEPT ![p] = "done"]
       \/ \E entries \in Listings :
            /\ input' = [NoInput EXCEPT !.entries = entries, !.excl = excl]
            /\ files' = entries
            /\ err' = [err EXCEPT ![p] = NilErr]
            /\ pc' = [pc EXCEPT ![p] = "ns_open"]
  /\ UNCHANGED <<conn, client, produced, closedConns, sessions, constructed,
                 startVars, inputBuf, stdinW, pipeCloses, wire, stdoutR, acks,
                 msgs, sinkLog, waited>>

\* Mutant of udNext: an entry named in the excludes list is skipped.
udNext_Excludes(p) ==
  /\ pc[p] = "ud_next"
  /\ IF files = <<>>
       THEN /\ pc' = [pc EXCEPT ![p] = "scp_close"]
            /\ UNCHANGED <<files, err, pipeCloses, sessions>>
     ELSE IF files[1].isDir
             \/ \E i \in DOMAIN input.excl : input.excl[i] = files[1].name
       THEN /\ files' = Tail(files)
            /\ UNCHANGED <<pc, err, pipeCloses, sessions>>
     ELSE IF files[1].openFail
       THEN /\ ScpReturn(p, ErrOpen)
            /\ UNCHANGED files
     ELSE /\ pc' = [pc EXCEPT ![p] = "uf_read"]
          /\ UNCHANGED <<files, err, pipeCloses, sessions>>
  /\ UNCHANGED <<conn, client, produced, closedConns, constructed, op, sess,
                 log, startVars, input, inputBuf, stdinW, wire, stdoutR, acks,
                 msgs, sinkLog, waited, transfers>>

\* scpUploadDir, one turn of its loop over the entries: a directory is
\* skipped; a file is opened and handed to scpUploadFile; after the last
\* entry the callback returns nil.
udNext(p) ==
  /\ pc[p] = "ud_next"
  /\ IF files = <<>>
       THEN /\ pc' = [pc EXCEPT ![p] = "scp_close"]
            /\ UNCHANGED <<files, err, pipeCloses, sessions>>
     ELSE IF files[1].isDir
       THEN /\ files' = Tail(files)
            /\ UNCHANGED <<pc, err, pipeCloses, sessions>>
     ELSE IF files[1].openFail
       THEN /\ ScpReturn(p, ErrOpen)
            /\ UNCHANGED files
     ELSE /\ pc' = [pc EXCEPT ![p] = "uf_read"]
          /\ UNCHANGED <<files, err, pipeCloses, sessions>>
  /\ UNCHANGED <<conn, client, produced, closedConns, constructed, op, sess,
                 log, startVars, input, inputBuf, stdinW, wire, stdoutR, acks,
                 msgs, sinkLog, waited, transfers>>

NextUploadDir ==
  \/ \E p \in Callers :
       ConnSteps(p) \/ UploadDirCall(p) \/ ScpSteps(p) \/ udNext(p)
  \/ \E s \in 1..MaxSessions : RemoteExit(s) \/ SinkRespond(s)

SpecUploadDir == Init /\ [][NextUploadDir]_vars

(***************************************************************************)
(* scpWalkFn, the walk function for filepath.Walk, applied to a directory *)
(* tree with a sink that acknowledges every message with 0.                *)
(***************************************************************************)
\* The nodes of a tree: the files "f" (one byte) and "g" (empty) and the
\* directory "d".  filepath.Walk visits the entries of a directory in
\* lexical order, so a directory's kids are listed as d, f, g.
FileF == [name |-> <<102>>, isDir |-> FALSE, content |-> <<65>>, kids |-> <<>>]
FileG == [name |-> <<103>>, isDir |-> FALSE, content |-> <<>>, kids |-> <<>>]
Dir(kids) == [name |-> <<100>>, isDir |-> TRUE, content |-> <<>>, kids |-> kids]
FileLists == {<<>>, <<FileF>>, <<FileG>>, <<FileF, FileG>>}

\* The entries a directory may have, with at most k directory levels below.
RECURSIVE DirKids(_)
DirKids(k) ==
  IF k = 0 THEN FileLists
  ELSE FileLists
         \cup {<<Dir(ks)>> \o fl : ks \in DirKids(k - 1), fl \in FileLists}

\* The source directory src with its entries.
SrcDir(kids) ==
  [name |-> <<115, 114, 99>>, isDir |-> TRUE, content |-> <<>>, kids |-> kids]

\* fmt.Fprintln(w, "D0755 0", targetPath) and fmt.Fprintln(w, "E")
DirBegin(name) == <<68, 48, 55, 53, 53, 32, 48, 32>> \o name \o <<10>>
DirEnd == <<69, 10>>

\* What scpUploadFile writes for a file when both acknowledgements are 0.
FileBytes(n) == Header(Len(n.content), n.name) \o n.content \o <<0>>

\* walk(node, path, cur): what filepath.Walk's walk writes at the node at
\* path, with scpWalkFn(cur, ...) as its walk function: it calls the walk
\* function on the node and then, the function having returned nil, walks
\* the entries of a directory in order.  Paths are sequences of names
\* below src.  scpWalkFn(node, path, cur): the walk function skips cur
\* itself; for a directory it writes the D line, walks the directory with a
\* walk function of its own, writes the E line and returns nil; for a file
\* it uploads the file.
RECURSIVE walk(_, _, _), walkKids(_, _, _, _), scpWalkFn(_, _, _)
scpWalkFn(node, path, cur) ==
  IF path = cur THEN <<>>
  ELSE IF node.isDir
    THEN DirBegin(path[Len(path)]) \o walk(node, path, path) \o DirEnd
  ELSE FileBytes([node EXCEPT !.name = path[Len(path)]])

walkKids(node, path, cur, i) ==
  IF i > Len(node.kids) THEN <<>>
  ELSE walk(node.kids[i], Append(path, node.kids[i].name), cur)
         \o walkKids(node, path, cur, i + 1)

walk(node, path, cur) ==
  scpWalkFn(node, path, cur)
    \o (IF node.isDir THEN walkKids(node, path, cur, 1) ELSE <<>>)

\* The number of bytes b in the sequence w.
CountByte(w, b) == Cardinality({i \in DOMAIN w : w[i] = b})

InitWalk ==
  /\ conn = 0
  /\ client = 0
  /\ produced = 0
  /\ closedConns = {}
  /\ sessions = <<>>
  /\ constructed = "no"
  /\ pc = [p \in Callers |-> "walk_call"]
  /\ op = [p \in Callers |-> "scpWalkFn"]
  /\ err = [p \in Callers |-> NilErr]
  /\ sess = [p \in Callers |-> 0]
  /\ log = [p \in Callers |-> <<>>]
  /\ cmd = [p \in Callers |-> 0]
  /\ cmds = <<>>
  /\ \E kids \in DirKids(MaxDepth) : input = [NoInput EXCEPT !.entries = kids]
  /\ files = <<>>
  /\ inputBuf = <<>>
  /\ stdinW = 0
  /\ pipeCloses = 0
  /\ wire = <<>>
  /\ stdoutR = <<>>
  /\ acks = 0
  /\ msgs = 0
  /\ sinkLog = <<>>
  /\ waited = FALSE
  /\ transfers = 0

\* filepath.Walk(src, scpWalkFn(src, dst, src, w, r)): every line and every
\* terminator written is a message, each acknowledged with 0.
scpWalkCall(p) ==
  /\ pc[p] = "walk_call"
  /\ LET out == walk(SrcDir(input.entries), <<>>, <<>>)
         n == CountByte(out, 10) + CountByte(out, 0)
     IN /\ wire' = out
        /\ msgs' = n
        /\ acks' = n
  /\ pc' = [pc EXCEPT ![p] = "done"]
  /\ UNCHANGED <<conn, client, produced, closedConns, sessions, constructed,
                 op, err, sess, log, startVars, input, files, inputBuf, stdinW,
                 pipeCloses, stdoutR, sinkLog, waited, transfers>>

NextWalk == \E p \in Callers : scpWalkCall(p)

SpecWalk == InitWalk /\ [][NextWalk]_vars

(***************************************************************************)
(* The claims about the connection and the session factory, checked under *)
(* Spec: a single caller calling reconnect and newSession.                *)
(***************************************************************************)
\* No call is in progress on the comm.
Quiescent == \A p \in Callers : pc[p] \in {"idle", "done"}

\* The callers that are inside an operation that acquires a session.
InSessionOp(p) == op[p] \notin {"none", "New", "reconnect"}

\* The part of a caller's log that newSession wrote.
NsLog(p) ==
  SelectSeq(log[p], LAMBDA x : x.ev \in {"noclient", "open", "reconnect"})

\* newSession has returned for the caller's running operation.
NsReturned(p) ==
  pc[p] \notin {"ns_open", "rc_close", "rc_dial", "rc_handshake", "ns_retry"}

\* C1: whenever no call is in progress (after New, after any reconnect or
\* newSession), the comm holds a connection if and only if it holds a
\* client; after a failed reconnect both are absent.
C1_ConnIffClient ==
  Quiescent => ((conn # 0) <=> (client # 0))

\* C2: a newSession call reconnects at most once and opens a channel at most
\* twice; the reconnect comes second, after a failed open or after "client
\* not available" (and then no open came before it); the retry open is the
\* third call, made only after a reconnect that succeeded, and it is made
\* whenever the reconnect succeeded; nothing follows it.
C2_BoundedRetry ==
  \A p \in Callers : InSessionOp(p) =>
    LET l == NsLog(p) IN
      /\ Len(l) <= 3
      /\ Cardinality({i \in DOMAIN l : l[i].ev = "reconnect"}) <= 1
      /\ Cardinality({i \in DOMAIN l : l[i].ev = "open"}) <= 2
      /\ \A i \in DOMAIN l :
           /\ l[i].ev = "noclient" => i = 1
           /\ l[i].ev = "reconnect" => i = 2 /\ l[1].err # NilErr
           /\ (l[i].ev = "open" /\ i > 1) =>
                i = 3 /\ l[2].ev = "reconnect" /\ l[2].err = NilErr
      /\ (NsReturned(p) /\ Len(l) >= 1 /\ l[1].err # NilErr) => Len(l) >= 2
      /\ (NsReturned(p) /\ Len(l) >= 2 /\ l[2].err = NilErr) =>
           Len(l) = 3 /\ l[3].ev = "open"

\* A newSession call that found no client, reconnected and retried.
C2_Witness ==
  \E p \in Callers :
    /\ op[p] = "newSession" /\ pc[p] = "done"
    /\ Len(log[p]) = 3 /\ log[p][1].ev = "noclient" /\ log[p][3].ev = "open"

\* C3: the result of newSession is the first open's session when that open
\* succeeded; the retry open's result (session or error) when the first
\* attempt failed and the reconnect succeeded; the reconnect's error and no
\* session when the reconnect failed.
C3_Result ==
  \A p \in Callers : (op[p] = "newSession" /\ pc[p] = "done") =>
    LET l == log[p] IN
      /\ Len(l) >= 1
      /\ l[1].err = NilErr =>
           sess[p] = l[1].session /\ sess[p] # 0 /\ err[p] = NilErr
      /\ (l[1].err # NilErr /\ Len(l) >= 2 /\ l[2].err = NilErr) =>
           /\ Len(l) = 3
           /\ sess[p] = l[3].session
           /\ err[p] = l[3].err
           /\ (sess[p] = 0) <=> (err[p] # NilErr)
      /\ (l[1].err # NilErr /\ Len(l) >= 2 /\ l[2].err # NilErr) =>
           sess[p] = 0 /\ err[p] = l[2].err

\* A newSession call whose first open failed and whose reconnect failed.
C3_Witness ==
  \E p \in Callers :
    /\ op[p] = "newSession" /\ pc[p] = "done"
    /\ Len(log[p]) = 2 /\ log[p][1].ev = "open" /\ log[p][2].err # NilErr

\* A newSession call whose retry open failed after a good reconnect.
C3_WitnessRetry ==
  \E p \in Callers :
    /\ op[p] = "newSession" /\ pc[p] = "done"
    /\ Len(log[p]) = 3 /\ log[p][3].err # NilErr

(***************************************************************************)
(* The claims about Start, checked under SpecStart (SpecStartFair for the *)
(* liveness part): a single caller calling Start, the remote processes    *)
(* ending at any time, the goroutines of Start running beside the caller. *)
(***************************************************************************)
\* The remote process of cmd c has ended (Wait on its session returns).
Terminated(c) == sessions[cmds[c].session].proc = "ended"

\* The goroutine of cmd c was launched and the remote process has ended.
EndedUnreported(c) ==
  IF c \in DOMAIN cmds THEN cmds[c].bg # "none" /\ Terminated(c) ELSE FALSE

\* The exit-status field of cmd c has been set.
Reported(c) ==
  IF c \in DOMAIN cmds THEN cmds[c].sets = 1 ELSE FALSE

\* C4: the exit-status field of a command is set at most once, only by the
\* goroutine of its Start (a step that takes the goroutine from waiting to
\* done) and only when the remote process has ended; a Start that returned
\* success has launched that goroutine; and once the remote process has
\* ended the field is eventually set.
C4_ExitStatusOnce ==
  /\ [](\A c \in DOMAIN cmds :
          /\ cmds[c].sets <= 1
          /\ cmds[c].exited <=> (cmds[c].sets = 1)
          /\ cmds[c].sets = 1 => (cmds[c].bg = "done" /\ Terminated(c))
          /\ cmds[c].ret = "ok" => cmds[c].bg # "none")
  /\ [][\A c \in DOMAIN cmds :
          cmds'[c].sets # cmds[c].sets =>
            /\ cmds[c].bg = "waiting" /\ cmds'[c].bg = "done"
            /\ Terminated(c)
            /\ cmds'[c].sets = 1]_vars
  /\ \A c \in 1..MaxCmds : EndedUnreported(c) ~> Reported(c)

\* A command whose Start returned success and whose status was then set.
C4_Witness ==
  \E c \in DOMAIN cmds : cmds[c].ret = "ok" /\ cmds[c].sets = 1

\* C5: the status reported is 0 when Wait succeeded, the remote exit code
\* when Wait failed with an ExitError, and 0 when it failed otherwise.
C5_ExitStatus ==
  \A c \in DOMAIN cmds : cmds[c].sets >= 1 =>
    LET w == sessions[cmds[c].session].wait IN
      /\ w.kind \in {"ok", "exit", "other"}
      /\ w.kind = "ok" => cmds[c].exitStatus = 0
      /\ w.kind = "exit" => cmds[c].exitStatus = w.code
      /\ w.kind = "other" => cmds[c].exitStatus = 0

\* A command that exited with status 3 and one that was lost to another error.
C5_Witness ==
  /\ \E c \in DOMAIN cmds :
       /\ cmds[c].sets = 1 /\ cmds[c].exitStatus = 3
       /\ sessions[cmds[c].session].wait = [kind |-> "exit", code |-> 3]
  /\ \E c \in DOMAIN cmds :
       /\ cmds[c].sets = 1
       /\ sessions[cmds[c].session].wait.kind = "other"

\* C6: when Start, Upload or UploadDir returns, the session it acquired is
\* closed; only the session of a Start that returned success is still open
\* (its goroutine closes it).
C6_SessionsClosed ==
  \A p \in Callers :
    (pc[p] = "done" /\ op[p] \in {"Start", "Upload", "UploadDir"}
       /\ sess[p] # 0 /\ ~(op[p] = "Start" /\ err[p] = NilErr))
      => sessions[sess[p]].closed

\* The step of a Start call that failed: the final call of newSession, the
\* pty request or the process start.
StartFailures(p) ==
  {i \in DOMAIN log[p] :
     /\ log[p][i].err # NilErr
     /\ \/ log[p][i].ev \in {"pty", "start"}
        \/ NsReturned(p) /\ i = Len(NsLog(p))}

\* C7: when session acquisition, the pty request or the process start of a
\* Start fails, that is the last thing the call does: Start is then at its
\* return with that error, no goroutine is launched for the command, and
\* its exit status is never set.
C7_StartFailure ==
  /\ \A p \in Callers : op[p] = "Start" =>
       \A i \in StartFailures(p) :
         /\ i = Len(log[p])
         /\ pc[p] = "done"
         /\ err[p] = log[p][i].err
         /\ cmds[cmd[p]].bg = "none"
         /\ cmds[cmd[p]].sets = 0
  /\ \A p \in Callers : (op[p] = "Start" /\ pc[p] = "done" /\ err[p] # NilErr) =>
       StartFailures(p) # {}
  /\ \A c \in DOMAIN cmds : cmds[c].ret = "err" =>
       cmds[c].bg = "none" /\ cmds[c].sets = 0 /\ ~cmds[c].exited

\* A Start whose pty request failed has returned, and a later Start ran its
\* command to the end.
C7_Witness ==
  /\ \E c \in DOMAIN cmds : cmds[c].ret = "err"
  /\ \E c \in DOMAIN cmds : cmds[c].sets = 1

\* A Start that is returning the error of its pty request.
C7_WitnessPty ==
  \E p \in Callers :
    /\ op[p] = "Start" /\ pc[p] = "done"
    /\ log[p][Len(log[p])].ev = "pty" /\ err[p] \in PtyErrors

(***************************************************************************)
(* The claims about Upload, checked under SpecUpload: a single caller     *)
(* calling Upload, the sink answering each message with any status and    *)
(* ending at any time.                                                     *)
(***************************************************************************)
\* The file name each destination path of the model stands for.
ExpectedName(path) ==
  IF path = <<102>> THEN <<102>>
  ELSE IF path = <<47, 116, 109, 112, 47, 103>> THEN <<103>>
  ELSE <<100>>

\* d is a decimal numeral without sign or leading zero.
IsDecimal(d) ==
  /\ d # <<>>
  /\ \A i \in DOMAIN d : d[i] \in 48..57
  /\ Len(d) > 1 => d[1] # 48

\* The number a decimal numeral denotes.
RECURSIVE DecimalValue(_)
DecimalValue(d) ==
  IF d = <<>> THEN 0
  ELSE 10 * DecimalValue(SubSeq(d, 1, Len(d) - 1)) + (d[Len(d)] - 48)

\* w is "C0644 <len> <name>\n" followed by rest, the numeral denoting len.
IsRecord(w, len, name, rest) ==
  \E k \in 1..3 :
    /\ Len(w) >= 6 + k
    /\ IsDecimal(SubSeq(w, 7, 6 + k))
    /\ DecimalValue(SubSeq(w, 7, 6 + k)) = len
    /\ w = C0644 \o <<32>> \o SubSeq(w, 7, 6 + k) \o <<32>> \o name \o <<10>> \o rest

\* The statuses of all answers the sink gave so far are 0.
SinkSaysOk == \A i \in DOMAIN sinkLog : sinkLog[i].code = 0

\* C8: an Upload of content to name n against a sink that answers 0 writes
\* the header "C0644 <len(content)> n\n", the content verbatim and one NUL,
\* in this order and nothing else; before the first acknowledgement is
\* consumed nothing but the header is written; the declared length is the
\* number of content bytes written before the NUL.
C8_FileRecord ==
  \A p \in Callers : op[p] = "Upload" =>
    LET n == ExpectedName(input.path)
        c == input.content
    IN /\ acks = 0 => (wire = <<>> \/ IsRecord(wire, Len(c), n, <<>>))
       /\ (acks = 1 /\ SinkSaysOk) =>
            \/ IsRecord(wire, Len(c), n, <<>>)
            \/ IsRecord(wire, Len(c), n, c)
            \/ IsRecord(wire, Len(c), n, c \o <<0>>)
       /\ (acks = 2 /\ SinkSaysOk) => IsRecord(wire, Len(c), n, c \o <<0>>)
       /\ (pc[p] = "done" /\ err[p] = NilErr) =>
            (acks = 2 /\ IsRecord(wire, Len(c), n, c \o <<0>>))

\* An Upload of the long content, and one of a content holding a NUL, done.
C8_Witness ==
  \E p \in Callers :
    /\ op[p] = "Upload" /\ pc[p] = "done" /\ err[p] = NilErr
    /\ acks = 2 /\ SinkSaysOk
    /\ input.content \in {LongContent, <<0>>, <<65, 0>>}

\* The same with the long content: the length has two digits.
C8_WitnessLong ==
  \E p \in Callers :
    /\ op[p] = "Upload" /\ pc[p] = "done" /\ err[p] = NilErr
    /\ input.content = LongContent /\ input.path = <<100, 47>>

\* C9: when the sink answers the header with a non-zero status and a message
\* line m, Upload returns an error whose text is m, and the header stays the
\* only thing written: no payload, no terminator, no wait for the sink.
\* When the sink answers the terminator so, Upload returns m likewise.
C9_Rejected ==
  \A p \in Callers : op[p] = "Upload" =>
    /\ (acks >= 1 /\ sinkLog[1].code # 0) =>
         /\ pc[p] = "done"
         /\ err[p] = ErrMessage(sinkLog[1].msg)
         /\ IsRecord(wire, Len(input.content), ExpectedName(input.path), <<>>)
         /\ msgs = 1 /\ acks = 1 /\ ~waited
    /\ (acks = 2 /\ sinkLog[1].code = 0 /\ sinkLog[2].code # 0) =>
         /\ pc[p] = "done"
         /\ err[p] = ErrMessage(sinkLog[2].msg)
         /\ msgs = 2 /\ ~waited

\* An Upload rejected with status 1 and "disk full" after the header.
C9_Witness ==
  \E p \in Callers :
    /\ op[p] = "Upload" /\ pc[p] = "done" /\ acks = 1
    /\ sinkLog[1].code = 1
    /\ sinkLog[1].msg = <<100, 105, 115, 107, 32, 102, 117, 108, 108>>
    /\ err[p].text = sinkLog[1].msg

\* An Upload rejected after the terminator, the line ending with "\r\n".
C9_WitnessLate ==
  \E p \in Callers :
    /\ op[p] = "Upload" /\ pc[p] = "done" /\ acks = 2
    /\ sinkLog[2].code = 2 /\ sinkLog[2].eol = <<13, 10>>
    /\ err[p].text = sinkLog[2].msg

\* C10: when the sink of a transfer has exited with status 127, the error
\* the transfer returns is the fixed "SCP failed to start" one, wherever in
\* the exchange the sink exited.
C10_Exit127 ==
  \A p \in Callers :
    (/\ op[p] \in {"Upload", "UploadDir"} /\ pc[p] = "done" /\ sess[p] # 0
     /\ sessions[sess[p]].wait = [kind |-> "exit", code |-> 127])
      => err[p] = ErrScpNotInstalled

\* The part of C10 the code keeps: a sink that exits with 127 after the
\* whole exchange, so that scpSession waits for it.
C10_Exit127Waited ==
  \A p \in Callers :
    (/\ op[p] \in {"Upload", "UploadDir"} /\ pc[p] = "done" /\ waited
     /\ sessions[sess[p]].wait = [kind |-> "exit", code |-> 127])
      => err[p] = ErrScpNotInstalled

(***************************************************************************)
(* The claim about checkSCPStatus, checked under SpecStatus.               *)
(***************************************************************************)
\* The message line of the stream r after its status byte: m is the line
\* without its line end, when r holds a newline after the status byte.
IsMessageLine(r, m) ==
  \E k \in 1..(Len(r) - 1) :
    /\ r[k + 1] = 10
    /\ \A j \in 1..(k - 1) : r[j + 1] # 10
    /\ \/ m \o <<10>> = SubSeq(r, 2, k + 1)
       \/ m \o <<13, 10>> = SubSeq(r, 2, k + 1)

HasNewline(r) == \E k \in 2..Len(r) : r[k] = 10

\* C11: checkSCPStatus returns nil only when it has read a status byte
\* equal to 0; a non-zero status byte followed by a newline-terminated line
\* yields an error whose text is that line; an empty stream, and a stream
\* that ends before the line can be read, yield an error.
C11_CheckStatus ==
  [][\A p \in Callers :
       (pc[p] = "cs_call" /\ pc'[p] = "done") =>
         /\ err'[p] = NilErr => (stdoutR # <<>> /\ stdoutR[1] = 0)
         /\ (stdoutR # <<>> /\ stdoutR[1] = 0) => err'[p] = NilErr
         /\ (stdoutR # <<>> /\ stdoutR[1] # 0 /\ HasNewline(stdoutR)) =>
              /\ err'[p].kind = "message"
              /\ IsMessageLine(stdoutR, err'[p].text)
         /\ stdoutR = <<>> => err'[p] = ErrEOF
         /\ (stdoutR # <<>> /\ stdoutR[1] # 0 /\ ~HasNewline(stdoutR)) =>
              err'[p] # NilErr]_vars

\* A stream of status 1 and the line "x" was read: the error is "x".
C11_Witness ==
  /\ op[1] = "checkSCPStatus"
  /\ pc[1] = "done"
  /\ err[1] = ErrMessage(<<120>>)
  /\ stdoutR = <<>>
  /\ acks = 1

\* A stream that ended right after a non-zero status byte was read.
C11_WitnessNoLine ==
  /\ op[1] = "checkSCPStatus"
  /\ pc[1] = "done"
  /\ err[1] = ErrReadMessage

(***************************************************************************)
(* The claims about UploadDir, checked under SpecUploadDir.                *)
(***************************************************************************)
\* The file record of a directory entry whose content is shorter than ten
\* bytes: "C0644 <len> <name>\n", the content, NUL.
ExpectedRecord(e) ==
  C0644 \o <<32, 48 + Len(e.content), 32>> \o e.name \o <<10>>
    \o e.content \o <<0>>

\* The records of the entries that are not directories, in listing order.
RECURSIVE ExpectedDirWire(_)
ExpectedDirWire(entries) ==
  IF entries = <<>> THEN <<>>
  ELSE IF entries[1].isDir THEN ExpectedDirWire(Tail(entries))
  ELSE ExpectedRecord(entries[1]) \o ExpectedDirWire(Tail(entries))

IsPrefix(a, b) == Len(a) <= Len(b) /\ a = SubSeq(b, 1, Len(a))

\* C12: what UploadDir writes is at every point a prefix of the file
\* records of the listing's entries that are not directories, in listing
\* order (so nothing is written for a directory, and no 'D' or 'E' record);
\* when UploadDir returns nil it has written exactly these records,
\* whatever the excludes list holds.
C12_FlatEmit ==
  \A p \in Callers : op[p] = "UploadDir" =>
    /\ IsPrefix(wire, ExpectedDirWire(input.entries))
    /\ wire # <<>> => wire[1] = 67
    /\ (pc[p] = "done" /\ err[p] = NilErr) =>
         wire = ExpectedDirWire(input.entries)

\* An UploadDir of the listing (sub/, a) with "a" in the excludes list is
\* done: the record of "a" is all that was written.
C12_Witness ==
  \E p \in Callers :
    /\ op[p] = "UploadDir" /\ pc[p] = "done" /\ err[p] = NilErr
    /\ Len(input.entries) = 2
    /\ input.entries[1].isDir /\ input.entries[2].name = <<97>>
    /\ input.excl = <<(<<97>>)>>
    /\ wire = <<67, 48, 54, 52, 52, 32, 49, 32, 97, 10, 65, 0>>
    /\ SinkSaysOk

\* An UploadDir of the listing (b, a) is done: two records, in this order.
C12_WitnessOrder ==
  \E p \in Callers :
    /\ op[p] = "UploadDir" /\ pc[p] = "done" /\ err[p] = NilErr
    /\ Len(input.entries) = 2
    /\ input.entries[1].name = <<98>> /\ input.entries[2].name = <<97>>
    /\ wire = <<67, 48, 54, 52, 52, 32, 48, 32, 98, 10, 0>>
                \o <<67, 48, 54, 52, 52, 32, 49, 32, 97, 10, 65, 0>>
    /\ acks = 4

\* C13: in a transfer the messages written exceed the acknowledgements
\* consumed by at most one, and a message (a header, a payload, a
\* terminator) is written only when every earlier message's acknowledgement
\* has been consumed.
C13_Alternation ==
  /\ [](acks <= msgs /\ msgs <= acks + 1)
  /\ [][(msgs' > msgs \/ Len(wire') > Len(wire)) => msgs = acks]_vars

\* An UploadDir of two files has written the second file's header, its
\* third message, after consuming two acknowledgements.
C13_Witness ==
  \E p \in Callers :
    /\ op[p] = "UploadDir" /\ pc[p] = "uf_ack1"
    /\ msgs = 3 /\ acks = 2
    /\ Len(files) = 1 /\ Len(input.entries) = 2

(***************************************************************************)
(* The claims about scpSession's pipe, wait and close, checked under      *)
(* SpecUpload.                                                             *)
(***************************************************************************)
\* The positions of scpSession after session.StdinPipe() returned the pipe.
PipeObtained(p) ==
  pc[p] \in {"scp_stdout", "scp_start", "ud_next", "uf_read", "uf_header",
             "uf_ack1", "uf_payload", "uf_nul", "uf_ack2", "scp_close",
             "scp_wait"}

\* C14: a transfer that obtained the stdin pipe has closed it exactly once
\* when it returns, from whichever position it returns; the pipe is never
\* closed twice, and a transfer that did not obtain it closes nothing.
C14_PipeClosedOnce ==
  /\ [](pipeCloses <= 1)
  /\ [][\A p \in Callers :
         (op[p] \in {"Upload", "UploadDir"} /\ pc[p] # "done"
            /\ pc'[p] = "done") =>
           pipeCloses' = IF PipeObtained(p) THEN 1 ELSE 0]_vars

\* A transfer ended by the failure of session.StdoutPipe(): the deferred
\* function closed the pipe.
C14_Witness ==
  \E p \in Callers :
    /\ op[p] = "Upload" /\ pc[p] = "done"
    /\ err[p] \in PipeErrors /\ stdinW = 1 /\ pipeCloses = 1

\* A transfer that ended after the wait: the pipe was closed before it.
C14_WitnessNormal ==
  \E p \in Callers :
    /\ op[p] = "Upload" /\ pc[p] = "done"
    /\ waited /\ stdinW = 0 /\ pipeCloses = 1

\* The content exchange of caller p's transfer has completed without error:
\* every file was sent and every message was acknowledged with 0.
ExchangeCompleted(p) ==
  /\ files = <<>>
  /\ err[p] = NilErr
  /\ acks = msgs
  /\ Len(sinkLog) = msgs
  /\ SinkSaysOk

\* C15: session.Wait() is called only after the content exchange completed
\* without error and the stdin pipe was closed, on a session not yet
\* closed; once the exchange has completed the session is closed only by
\* the step in which the wait returns; a transfer that returns from within
\* the exchange has not waited.
C15_WaitOrder ==
  [][\A p \in Callers : op[p] \in {"Upload", "UploadDir"} =>
       /\ (~waited /\ waited') =>
            /\ ExchangeCompleted(p)
            /\ stdinW = 0 /\ pipeCloses = 1
            /\ ~sessions[sess[p]].closed
            /\ sessions[sess[p]].proc = "ended"
       /\ (pc[p] \in {"scp_close", "scp_wait"}
             /\ ~sessions[sess[p]].closed /\ sessions'[sess[p]].closed) =>
            waited'
       /\ (pc[p] \in {"ud_next", "uf_read", "uf_header", "uf_ack1",
                       "uf_payload", "uf_nul", "uf_ack2"}
             /\ pc'[p] = "done") =>
            (~waited' /\ err'[p] # NilErr /\ sessions'[sess[p]].closed)]_vars

\* A transfer whose exchange completed, done after the wait returned nil.
C15_Witness ==
  \E p \in Callers :
    /\ op[p] = "Upload" /\ pc[p] = "done" /\ err[p] = NilErr
    /\ waited /\ pipeCloses = 1 /\ sessions[sess[p]].closed

\* A transfer whose exchange failed at the last acknowledgement: it is done
\* and its session closed without a wait.
C15_WitnessFailed ==
  \E p \in Callers :
    /\ op[p] = "Upload" /\ pc[p] = "done" /\ err[p].kind = "message"
    /\ acks = 2 /\ ~waited /\ sessions[sess[p]].closed

(***************************************************************************)
(* The claim about reading the content, checked under SpecUploadDir.      *)
(***************************************************************************)
\* The entries of the running UploadDir that lie before the first of files.
EntriesBefore == SubSeq(input.entries, 1, Len(input.entries) - Len(files))

\* C16: while scpUploadFile has not read a file's content to its end,
\* nothing of that file is written: what has been written are the records
\* of the files before it; a protocol byte of a file is written only with
\* the whole content in the buffer; a failed read returns the read error
\* and leaves what was written as it was.
C16_ReadBeforeWrite ==
  /\ [](\A p \in Callers : op[p] = "UploadDir" =>
          /\ (pc[p] \in {"ud_next", "uf_read"}
                \/ (pc[p] = "done" /\ err[p] = ErrRead)) =>
               wire = ExpectedDirWire(EntriesBefore)
          /\ pc[p] \in {"uf_header", "uf_ack1", "uf_payload", "uf_nul",
                        "uf_ack2"} =>
               (inputBuf = files[1].content /\ ~files[1].readFail))
  /\ [][\A p \in Callers :
         (op[p] = "UploadDir" /\ pc[p] = "uf_read" /\ files[1].readFail
            /\ pc'[p] # pc[p]) =>
           (pc'[p] = "done" /\ err'[p] = ErrRead /\ wire' = wire
              /\ msgs' = msgs)]_vars

\* An UploadDir of the listing (a, d) failed reading "d": the record of "a"
\* is all that was written.
C16_Witness ==
  \E p \in Callers :
    /\ op[p] = "UploadDir" /\ pc[p] = "done" /\ err[p] = ErrRead
    /\ Len(input.entries) = 2 /\ input.entries[2].readFail
    /\ wire = <<67, 48, 54, 52, 52, 32, 49, 32, 97, 10, 65, 0>>
    /\ msgs = 2

(***************************************************************************)
(* The claims about concurrent use, checked under SpecConc and SpecStart. *)
(***************************************************************************)
\* Goroutine q is inside reconnect: it has cleared or is about to clear
\* c.conn and c.client and has not yet stored the new client.
InReconnect(q) == pc[q] \in {"rc_close", "rc_dial", "rc_handshake"}

\* Goroutine p is about to read c.client to open a channel on it.
ReadsClient(p) ==
  \/ pc[p] = "ns_open"
  \/ pc[p] = "ns_retry" /\ err[p] = NilErr

\* C17: no goroutine is at a read of the client for channel-opening while
\* another goroutine is inside reconnect, and newSession never calls
\* NewSession on an absent client.
C17_ReadAfterReconnect ==
  /\ \A p \in Procs : \A q \in Procs \ {p} :
       ~(ReadsClient(p) /\ InReconnect(q))
  /\ \A p \in Procs : ~(pc[p] = "ns_retry" /\ err[p] = NilErr /\ client = 0)
  /\ \A p \in Procs : pc[p] # "panic"

\* Session s carries a running command or a running sink.
InUse(s) == sessions[s].proc = "running" /\ ~sessions[s].closed

\* C18: no step closes the connection that carries a session in use, and
\* a session in use never ends in a step that closes a connection.
C18_SessionsIndependent ==
  [][\A s \in DOMAIN sessions :
       InUse(s) =>
         /\ sessions[s].conn \notin closedConns'
         /\ sessions'[s].proc = "ended" => closedConns' = closedConns]_vars

(***************************************************************************)
(* The claim about the connections the factory produced, checked under    *)
(* Spec.                                                                   *)
(***************************************************************************)
\* The connections the factory produced on which Close was not called.
OpenConns == {c \in 1..produced : c \notin closedConns}

\* C19: every connection the factory produced is the stored one or has
\* been closed, so at most one is un-closed; and reconnect invokes the
\* factory only with no connection stored, the previous one closed.
C19_OneOpenConn ==
  /\ OpenConns \subseteq {conn}
  /\ Cardinality(OpenConns) <= 1
  /\ \A p \in Callers : pc[p] = "rc_dial" => (conn = 0 /\ OpenConns = {})

\* The factory has produced three connections: the first two were closed
\* by the reconnects that replaced them, the third is the stored one.
C19_Witness ==
  /\ produced = 3
  /\ closedConns = {1, 2}
  /\ conn = 3
  /\ OpenConns = {3}

\* A connection whose handshake failed stayed stored and was closed by the
\* next reconnect.
C19_WitnessHandshake ==
  /\ produced = 2
  /\ closedConns = {1, 2}
  /\ conn = 0 /\ client = 0
  /\ \E p \in Callers : pc[p] = "rc_dial"

(***************************************************************************)
(* The claim about the recursive walk, checked under SpecWalk.             *)
(***************************************************************************)
\* The records of a tree's entries, each directory bracketing its own.
RECURSIVE ExpectedTree(_)
ExpectedTree(kids) ==
  IF kids = <<>> THEN <<>>
  ELSE (IF kids[1].isDir
          THEN DirBegin(kids[1].name) \o ExpectedTree(kids[1].kids) \o DirEnd
          ELSE ExpectedRecord(kids[1]))
         \o ExpectedTree(Tail(kids))

\* The numbers of files and of directories in a tree's entries.
RECURSIVE NumFiles(_), NumDirs(_)
NumFiles(kids) ==
  IF kids = <<>> THEN 0
  ELSE (IF kids[1].isDir THEN NumFiles(kids[1].kids) ELSE 1)
         + NumFiles(Tail(kids))
NumDirs(kids) ==
  IF kids = <<>> THEN 0
  ELSE (IF kids[1].isDir THEN 1 + NumDirs(kids[1].kids) ELSE 0)
         + NumDirs(Tail(kids))

\* C20: the walk writes one 'D0755 0 <name>' and one 'E' line for each
\* directory below the root and one 'C0644' record for each file, none
\* twice, each inside the D...E brackets of exactly its ancestors.
C20_WalkFraming ==
  \A p \in Callers : (op[p] = "scpWalkFn" /\ pc[p] = "done") =>
    /\ CountByte(wire, 67) = NumFiles(input.entries)
    /\ CountByte(wire, 68) = NumDirs(input.entries)
    /\ CountByte(wire, 69) = NumDirs(input.entries)
    /\ wire = ExpectedTree(input.entries)

\* The part of C20 the code keeps: a tree without sub-directories.
C20_FlatTree ==
  \A p \in Callers :
    (op[p] = "scpWalkFn" /\ pc[p] = "done"
       /\ NumDirs(input.entries) = 0) =>
      wire = ExpectedTree(input.entries)

====
